---- MODULE Spec2Model ----
(***************************************************************************)
(* A model of telemetry_email_alerter.py: the TelemetryWs object, the      *)
(* websocket thread that runs its callbacks (on_run, on_message), the      *)
(* three sender threads started by on_run, the device directory            *)
(* (self.devices) and the notification sink (self.server.sendmail).        *)
(*                                                                         *)
(* Threads.  The websocket thread runs on_run once and then on_message for *)
(* each inbound frame, one at a time.  on_run starts three threads, each   *)
(* of which runs send_message once.  The sender threads share only the     *)
(* transport with the rest of the program.                                 *)
(*                                                                         *)
(* Environment.  What the websocket library does with an exception that    *)
(* leaves on_message is not code of this program; the model records the    *)
(* exception in `raised` when the callback returns and lets the read loop  *)
(* go on.  What socket.send does when two threads call it at once is not   *)
(* code of this program either: the program holds no lock around it, so a  *)
(* send is one write or two partial writes, and partial writes of          *)
(* different threads may interleave.                                       *)
(***************************************************************************)
EXTENDS Integers, Sequences, FiniteSets, TLC

(***************************************************************************)
(* Bounds of the model and the small universes the inputs are drawn from.  *)
(***************************************************************************)
\* the longest Notifications sequence of an inbound frame
MaxNotifs == 2

DeviceIds == {"d1", "d2"}
Hostnames == {"h1", "h2"}
Severities == {"critical", "warning"}

\* the values make_token can return; only equality of tokens is ever used
TokenSpace == {"t1", "t2", "t3"}
\* a token no request of this run carries
ForeignToken == "tx"
\* None: the value of the three token fields before on_run
NoToken == "None"
\* an updates entry whose value has no hostname key
NoHostname == "no_hostname"

\* program constants
VERSION_09 == "0.9.0"
VERSION_1 == "1.0.0"
SUBSCRIBE == "subscribe"
GET == "get"
MsPerSecond == 1000

\* the three sender threads of on_run, by the request each sends
Threads == {"get_devices", "sub_devices", "sub_events"}

VARIABLES
    lifecycle,          \* where the connection is in its life
    wsPc,               \* where the websocket thread is
    devices_get_token,  \* self.devices_get_token
    devices_sub_token,  \* self.devices_sub_token
    events_token,       \* self.events_token
    devices,            \* self.devices: device id -> hostname
    threads,            \* sender thread -> [pc, msg]
    wire,               \* the writes seen at the transport, in order
    cur,                \* the frame on_message was last called with
    idx,                \* events loop: index of the notification in the sink
    mail,               \* the alert sendmail is delivering, or NoMail
    sinkCalls,          \* the alerts handed to sendmail for the frame `cur`
    raised,             \* the exception that left on_message, or "none"
    before,             \* history: self.devices when on_message was entered
    subFold,            \* history: the writes made for subscription frames
    errlog,             \* what logging.error and print have reported
    call                \* a call of send_message: its arguments and its data

vars == <<lifecycle, wsPc, devices_get_token, devices_sub_token, events_token,
          devices, threads, wire, cur, idx, mail, sinkCalls, raised, before,
          subFold, errlog, call>>

tokenVars == <<devices_get_token, devices_sub_token, events_token>>
senderVars == <<threads, wire>>
inboundVars == <<devices, cur, idx, mail, sinkCalls, raised, before, subFold>>

EmptyDir == [k \in {} |-> "h1"]
NoMail == [kind |-> "none"]
NoFrame == [shape |-> "none", tok |-> NoToken, notifs |-> <<>>]
NoMsg == [k \in {} |-> "x"]
NoCall == [command |-> "none", token |-> NoToken, args |-> "none",
           version |-> "none", data |-> NoMsg]


(***************************************************************************)
(* Tokens and requests.                                                    *)
(***************************************************************************)
TokenOrder == <<"t1", "t2", "t3">>

\* the first token of TokenOrder that no earlier draw returned
FreshToken(issued) ==
    LET i == CHOOSE n \in 1..Len(TokenOrder) :
                 /\ TokenOrder[n] \notin issued
                 /\ \A m \in 1..(n - 1) : TokenOrder[m] \in issued
    IN  TokenOrder[i]

\* make_token draws 20 random characters and hashes them; nothing compares the
\* result with the tokens drawn before.  A draw either repeats an earlier draw
\* or is new, and tokens are only ever compared for equality, so a new token
\* is named by the first unused name.
make_token(issued) == issued \cup {FreshToken(issued)}

\* the argument always under the params key
ArgNameParams(version) == "params"

ArgName(version) == IF version = VERSION_09 THEN "args" ELSE "params"

\* the dictionary send_message serializes
send_message(command, token, args, version) ==
    [k \in {"token", "command", "version", ArgName(version)} |->
        CASE k = "token" -> token
          [] k = "command" -> command
          [] k = "version" -> version
          [] OTHER -> args]

Unborn == [pc |-> "unborn", msg |-> NoMsg]

\* the Thread object is built and start() is never called
ThreadNotStarted(command, token, args, version) ==
    [pc |-> "unborn", msg |-> send_message(command, token, args, version)]

\* threading.Thread(target=self.send_message, args=(...)).start()
StartThread(command, token, args, version) ==
    [pc |-> "ready", msg |-> send_message(command, token, args, version)]

\* a socket that still accepts a send after it was closed
SocketNeverCloses == lifecycle \notin {"Disconnected", "Connected"}

\* self.socket accepts a send from the open callback until the socket closes
SocketOpen == lifecycle \in {"SubscribingInitial", "Streaming"}

(***************************************************************************)
(* Construction and the open callback.                                     *)
(***************************************************************************)
Init ==
    /\ lifecycle = "Disconnected"
    /\ wsPc = "none"
    /\ devices_get_token = NoToken
    /\ devices_sub_token = NoToken
    /\ events_token = NoToken
    /\ devices = EmptyDir
    /\ threads = [t \in Threads |-> Unborn]
    /\ wire = <<>>
    /\ cur = NoFrame
    /\ idx = 0
    /\ mail = NoMail
    /\ sinkCalls = <<>>
    /\ raised = "none"
    /\ before = EmptyDir
    /\ subFold = EmptyDir
    /\ errlog = {}
    /\ call = NoCall

\* a constructor that reports a rejected login and goes on
ConstructGoesOn(noTelemetrySSL, status, smtpOk) ==
    /\ lifecycle = "Disconnected"
    /\ lifecycle' = "Connected"
    /\ errlog' = IF ~noTelemetrySSL /\ status # 200
                 THEN errlog \cup {"Telemetry credentials invalid"}
                 ELSE IF ~smtpOk THEN errlog \cup {"mail login failed"}
                 ELSE errlog
    /\ UNCHANGED <<wsPc, tokenVars, senderVars, inboundVars, call>>

\* TelemetryWs.__init__: the login to the feed (unless noTelemetrySSL) and the
\* login to the mail server; either failure ends the process.
Construct(noTelemetrySSL, status, smtpOk) ==
    /\ lifecycle = "Disconnected"
    /\ lifecycle' = IF (noTelemetrySSL \/ status = 200) /\ smtpOk
                    THEN "Connected" ELSE "ClosedError"
    /\ errlog' = IF ~noTelemetrySSL /\ status # 200
                 THEN errlog \cup {"Telemetry credentials invalid"}
                 ELSE IF ~smtpOk THEN errlog \cup {"mail login failed"}
                 ELSE errlog
    /\ UNCHANGED <<wsPc, tokenVars, senderVars, inboundVars, call>>

\* on_run, up to the call of get_and_subscribe_devices
OnRun ==
    /\ lifecycle = "Connected"
    /\ lifecycle' = "SubscribingInitial"
    /\ wsPc' = "on_run"
    /\ UNCHANGED <<tokenVars, senderVars, inboundVars>>
    /\ UNCHANGED <<errlog, call>>

\* get_and_subscribe_devices: two tokens, two threads
GetAndSubscribeDevices ==
    /\ wsPc = "on_run"
    /\ \E g \in make_token({}) : \E s \in make_token({g}) :
         /\ devices_get_token' = g
         /\ devices_sub_token' = s
         /\ threads' = [threads EXCEPT
                 !["get_devices"] =
                     StartThread(GET, g, "EosSwitches,count=False", VERSION_1),
                 !["sub_devices"] =
                     StartThread(SUBSCRIBE, s, "EosSwitches", VERSION_1)]
    /\ wsPc' = "get_events"
    /\ UNCHANGED <<lifecycle, events_token, wire, inboundVars>>
    /\ UNCHANGED <<errlog, call>>

\* get_events with the thread started and the token never stored
GetEventsUnregistered ==
    /\ wsPc = "get_events"
    /\ \E e \in make_token({devices_get_token, devices_sub_token}) :
         threads' = [threads EXCEPT
                 !["sub_events"] =
                     StartThread(SUBSCRIBE, e, "allEvents", VERSION_1)]
    /\ wsPc' = "idle"
    /\ lifecycle' = "Streaming"
    /\ UNCHANGED <<tokenVars, wire, inboundVars>>
    /\ UNCHANGED <<errlog, call>>

\* get_events: one token, one thread; on_run returns to the read loop
GetEvents ==
    /\ wsPc = "get_events"
    /\ \E e \in make_token({devices_get_token, devices_sub_token}) :
         /\ events_token' = e
         /\ threads' = [threads EXCEPT
                 !["sub_events"] =
                     StartThread(SUBSCRIBE, e, "allEvents", VERSION_1)]
    /\ wsPc' = "idle"
    /\ lifecycle' = "Streaming"
    /\ UNCHANGED <<devices_get_token, devices_sub_token, wire, inboundVars>>
    /\ UNCHANGED <<errlog, call>>

(***************************************************************************)
(* The sender threads: send_message's self.socket.send(json.dumps(data)).  *)
(***************************************************************************)
Chunk(t, part) == [thread |-> t, part |-> part, msg |-> threads[t].msg]

\* the whole message reaches the transport in one write
SendMessage(t) ==
    /\ threads[t].pc = "ready"
    /\ SocketOpen
    /\ wire' = Append(wire, Chunk(t, "whole"))
    /\ threads' = [threads EXCEPT ![t].pc = "done"]
    /\ UNCHANGED <<lifecycle, wsPc, tokenVars, inboundVars>>
    /\ UNCHANGED <<errlog, call>>

\* the transport takes only the first part of the message
SendPartial(t) ==
    /\ threads[t].pc = "ready"
    /\ SocketOpen
    /\ wire' = Append(wire, Chunk(t, "head"))
    /\ threads' = [threads EXCEPT ![t].pc = "writing"]
    /\ UNCHANGED <<lifecycle, wsPc, tokenVars, inboundVars>>
    /\ UNCHANGED <<errlog, call>>

\* the rest of the message follows
SendRest(t) ==
    /\ threads[t].pc = "writing"
    /\ SocketOpen
    /\ wire' = Append(wire, Chunk(t, "tail"))
    /\ threads' = [threads EXCEPT ![t].pc = "done"]
    /\ UNCHANGED <<lifecycle, wsPc, tokenVars, inboundVars>>
    /\ UNCHANGED <<errlog, call>>

\* the socket is closed: send raises in the thread, which ends
SendFails(t) ==
    /\ threads[t].pc \in {"ready", "writing"}
    /\ ~SocketOpen
    /\ threads' = [threads EXCEPT ![t].pc = "failed"]
    /\ UNCHANGED <<lifecycle, wsPc, tokenVars, wire, inboundVars>>
    /\ UNCHANGED <<errlog, call>>

(***************************************************************************)
(* The end of the connection.                                              *)
(***************************************************************************)
\* a read loop that connects again after an error
TransportErrorReconnects ==
    /\ lifecycle \in {"Connected", "Streaming"}
    /\ wsPc \in {"none", "idle"}
    /\ lifecycle' = "Connected"
    /\ wsPc' = "none"
    /\ errlog' = errlog \cup {"Websocket connection error"}
    /\ UNCHANGED <<tokenVars, senderVars, inboundVars, call>>

\* run_forever ends on a transport error: on_error logs it, nothing reconnects
TransportError ==
    /\ lifecycle \in {"Connected", "Streaming"}
    /\ wsPc \in {"none", "idle"}
    /\ lifecycle' = "ClosedError"
    /\ wsPc' = "exited"
    /\ errlog' = errlog \cup {"Websocket connection error"}
    /\ UNCHANGED <<tokenVars, senderVars, inboundVars, call>>

\* KeyboardInterrupt in main: connection.socket.close() and exit
Interrupt ==
    /\ lifecycle \in {"Connected", "Streaming"}
    /\ wsPc \in {"none", "idle"}
    /\ lifecycle' = "ClosedNormal"
    /\ wsPc' = "exited"
    /\ UNCHANGED <<tokenVars, senderVars, inboundVars>>
    /\ UNCHANGED <<errlog, call>>

(***************************************************************************)
(* Inbound frames.  A frame is what json.loads gives on_message:           *)
(*   shape "badjson"   the text is no JSON                                 *)
(*         "notoken"   a dictionary without a token key                    *)
(*         "noresult"  a token and no result key (an acknowledgement)      *)
(*         "nonotifs"  a result whose first element has no Notifications   *)
(*         "ok"        result[0].Notifications is the sequence notifs      *)
(* A notification is a device batch (updates: device id -> hostname entry) *)
(* or an event (updates: data, severity, title, description, timestamp).   *)
(***************************************************************************)
FrameTokens == TokenSpace \cup {ForeignToken}

UpdatesOver(values) == UNION {[S -> values] : S \in SUBSET DeviceIds}

Batch(u) == [kind |-> "devices", updates |-> u]

\* the batches a device frame may end with: any entries, with or without hostname
LastBatches == {Batch(u) : u \in UpdatesOver(Hostnames \cup {NoHostname})}

\* the batches that precede the last one: one well-formed entry each
EarlierBatches ==
    {Batch(u) : u \in {v \in UpdatesOver(Hostnames) : Cardinality(DOMAIN v) = 1}}

EventFields == {"severity", "title", "description", "timestamp"}

Event(hasData, d, s, missing) ==
    [kind |-> "event", hasData |-> hasData, deviceId |-> d, severity |-> s,
     title |-> "t", description |-> "x", timestamp |-> 2999,
     missing |-> missing]

\* events with data and every field, one event without data, and one with
\* data whose updates lacks the timestamp
Events ==
    {Event(TRUE, d, s, {}) : d \in DeviceIds, s \in Severities}
        \cup {Event(FALSE, "d1", "warning", {})}
        \cup {Event(TRUE, "d1", "critical", {"timestamp"})}

SeqsOf(S, n) == [1..n -> S]

DeviceLists ==
    {<<>>} \cup
    UNION {{e \o <<b>> : e \in SeqsOf(EarlierBatches, n), b \in LastBatches} :
              n \in 0..(MaxNotifs - 1)}

EventLists == UNION {SeqsOf(Events, n) : n \in 0..MaxNotifs}

Frame(shape, tok, notifs) == [shape |-> shape, tok |-> tok, notifs |-> notifs]

Frames ==
    {Frame("badjson", NoToken, <<>>), Frame("notoken", NoToken, <<>>)}
        \cup {Frame(sh, t, <<>>) : sh \in {"noresult", "nonotifs"}, t \in FrameTokens}
        \cup {Frame("ok", t, n) : t \in FrameTokens, n \in DeviceLists \cup EventLists}

(***************************************************************************)
(* on_message and the two handlers.                                        *)
(***************************************************************************)
\* a router whose second branch takes every token the first one left
HandlerElse(tok) == IF tok = events_token THEN "events" ELSE "devices"

\* a router that tests the device tokens before the events token
HandlerDevicesFirst(tok) ==
    IF tok \in {devices_get_token, devices_sub_token} THEN "devices"
    ELSE IF tok = events_token THEN "events"
    ELSE "none"

\* a router with the two handlers exchanged
HandlerSwapped(tok) ==
    IF tok = events_token THEN "devices"
    ELSE IF tok = devices_get_token \/ tok = devices_sub_token THEN "events"
    ELSE "none"

\* the branch of on_message a token selects
Handler(tok) ==
    IF tok = events_token THEN "events"
    ELSE IF tok = devices_get_token \/ tok = devices_sub_token THEN "devices"
    ELSE "none"

\* a router that reads the result without looking for the key
ResultAssumed(f) == TRUE

\* 'result' in data
ResultPresent(f) == f.shape # "noresult"

\* the first batch in place of the last
FirstBatch(notifs) == notifs[1]

\* switch_updates[len(switch_updates) - 1]
SelectedBatch(notifs) == notifs[Len(notifs)]

\* a write that keeps the entry a key already has
PutIfAbsent(devs, k, v) ==
    [x \in DOMAIN devs \cup {k} |-> IF x \in DOMAIN devs THEN devs[x] ELSE v]

\* self.devices[key] = hostname
Put(devs, k, v) == [x \in DOMAIN devs \cup {k} |-> IF x = k THEN v ELSE devs[x]]

\* the orders in which a dictionary's items may come
Orders(S) ==
    {o \in [1..Cardinality(S) -> S] :
        \A i, j \in 1..Cardinality(S) : i # j => o[i] # o[j]}

RECURSIVE ApplyInOrder(_, _, _, _, _)
\* the loop of process_devices over the items in the order o, from item i on
ApplyInOrder(devs, updates, o, i, written) ==
    IF i > Len(o) THEN [devices |-> devs, raised |-> "none", written |-> written]
    ELSE IF updates[o[i]] = NoHostname
         THEN [devices |-> devs, raised |-> "KeyError", written |-> written]
         ELSE ApplyInOrder(Put(devs, o[i], updates[o[i]]), updates, o, i + 1,
                           written \cup {o[i]})

\* process_devices: every outcome an iteration order can give.  The items of an
\* event's updates are no hostname entries, so the first of them raises.
process_devices(devs, notif) ==
    IF notif.kind = "devices"
    THEN {ApplyInOrder(devs, notif.updates, o, 1, {}) :
              o \in Orders(DOMAIN notif.updates)}
    ELSE {[devices |-> devs, raised |-> "TypeError", written |-> {}]}

\* self.devices.get(deviceId, deviceId)
\* self.devices.get(deviceId), with no default
ResolveOrNone(devs, d) == IF d \in DOMAIN devs THEN devs[d] ELSE "None"

Resolve(devs, d) == IF d \in DOMAIN devs THEN devs[d] ELSE d

\* time.strftime(format, time.localtime(seconds))
strftime(seconds) == <<"localtime", seconds>>

\* what send_email puts into the message it hands to sendmail
MakeAlert(e, devs) ==
    [kind |-> "alert", severity |-> e.severity, title |-> e.title,
     description |-> e.description, host |-> Resolve(devs, e.deviceId),
     datetime |-> strftime(e.timestamp \div MsPerSecond)]

\* send_email up to the call of sendmail: return early, raise, or call the sink
send_email(e) ==
    IF e.kind = "devices" THEN "skip"
    ELSE IF ~e.hasData THEN "skip"
    ELSE IF e.missing # {} THEN "raise"
    ELSE "sink"

RECURSIVE RunLoop(_, _)
\* the loop of on_message over the notifications from index i on, up to the
\* next call of the sink, an exception, or the end of the sequence
RunLoop(notifs, i) ==
    IF i > Len(notifs)
    THEN [pc |-> "returned", idx |-> Len(notifs), raised |-> "none"]
    ELSE CASE send_email(notifs[i]) = "skip" -> RunLoop(notifs, i + 1)
           [] send_email(notifs[i]) = "raise" ->
                [pc |-> "returned", idx |-> i, raised |-> "KeyError"]
           [] OTHER -> [pc |-> "in_sink", idx |-> i, raised |-> "none"]

Returned(exc, devs, written) ==
    [pc |-> "returned", idx |-> 0, raised |-> exc, devices |-> devs,
     written |-> written]

\* on_message(f): every outcome of the handler up to its return or its first
\* call of the sink
on_message(f) ==
    IF f.shape = "badjson" THEN {Returned("ValueError", devices, {})}
    ELSE IF f.shape = "notoken" THEN {Returned("KeyError", devices, {})}
    ELSE IF Handler(f.tok) = "none" THEN {Returned("none", devices, {})}
    ELSE IF ~ResultPresent(f) THEN {Returned("none", devices, {})}
    ELSE IF f.shape # "ok" THEN {Returned("KeyError", devices, {})}
    ELSE IF Handler(f.tok) = "events"
         THEN {[pc |-> RunLoop(f.notifs, 1).pc, idx |-> RunLoop(f.notifs, 1).idx,
                raised |-> RunLoop(f.notifs, 1).raised, devices |-> devices,
                written |-> {}]}
         ELSE IF f.notifs = <<>> THEN {Returned("IndexError", devices, {})}
              ELSE {Returned(r.raised, r.devices, r.written) :
                        r \in process_devices(devices, SelectedBatch(f.notifs))}

\* the history of the subscription's writes
FoldWrites(fold, devs, written) ==
    [k \in DOMAIN fold \cup written |-> IF k \in written THEN devs[k] ELSE fold[k]]

MailAt(notifs, r) ==
    IF r.pc = "in_sink" THEN MakeAlert(notifs[r.idx], devices) ELSE NoMail

\* a call of sendmail: the notification it is made for and the alert it carries
Call(notifs, r) == [at |-> r.idx, alert |-> MailAt(notifs, r)]

\* the read loop hands the next frame to on_message
OnMessage(f) ==
    /\ lifecycle = "Streaming"
    /\ wsPc = "idle"
    /\ \E r \in on_message(f) :
         /\ wsPc' = r.pc
         /\ idx' = r.idx
         /\ raised' = r.raised
         /\ devices' = r.devices
         /\ mail' = MailAt(f.notifs, r)
         /\ sinkCalls' = IF r.pc = "in_sink" THEN <<Call(f.notifs, r)>> ELSE <<>>
         /\ subFold' = IF f.tok = devices_sub_token
                       THEN FoldWrites(subFold, r.devices, r.written)
                       ELSE subFold
    /\ cur' = f
    /\ before' = devices
    /\ UNCHANGED <<lifecycle, tokenVars, senderVars>>
    /\ UNCHANGED <<errlog, call>>

\* sendmail returns (ok) or raises; on_message goes on with the next
\* notification or the exception leaves it
SinkReturn(ok) ==
    /\ wsPc = "in_sink"
    /\ IF ok
       THEN LET r == RunLoop(cur.notifs, idx + 1) IN
            /\ wsPc' = r.pc
            /\ idx' = r.idx
            /\ raised' = r.raised
            /\ mail' = MailAt(cur.notifs, r)
            /\ sinkCalls' = IF r.pc = "in_sink"
                            THEN Append(sinkCalls, Call(cur.notifs, r))
                            ELSE sinkCalls
       ELSE /\ wsPc' = "returned"
            /\ raised' = "SMTPException"
            /\ mail' = NoMail
            /\ UNCHANGED <<idx, sinkCalls>>
    /\ UNCHANGED <<lifecycle, tokenVars, senderVars, devices, cur, before,
                   subFold>>
    /\ UNCHANGED <<errlog, call>>

\* a router that releases the token of the one-shot get with its response
ReturnReleasesGet ==
    /\ wsPc = "returned"
    /\ wsPc' = "idle"
    /\ cur' = NoFrame
    /\ idx' = 0
    /\ sinkCalls' = <<>>
    /\ raised' = "none"
    /\ before' = EmptyDir
    /\ devices_get_token' = IF cur.shape = "ok" /\ cur.tok = devices_get_token
                            THEN NoToken ELSE devices_get_token
    /\ UNCHANGED <<lifecycle, devices_sub_token, events_token, senderVars,
                   devices, mail, subFold>>
    /\ UNCHANGED <<errlog, call>>

\* on_message has returned or raised; the read loop waits for the next frame
Return ==
    /\ wsPc = "returned"
    /\ wsPc' = "idle"
    /\ cur' = NoFrame
    /\ idx' = 0
    /\ sinkCalls' = <<>>
    /\ raised' = "none"
    /\ before' = EmptyDir
    /\ UNCHANGED <<lifecycle, tokenVars, senderVars, devices, mail, subFold>>
    /\ UNCHANGED <<errlog, call>>

(***************************************************************************)
(* Specifications.                                                         *)
(***************************************************************************)
Startup ==
    \/ \E n \in BOOLEAN, st \in {200, 401}, ok \in BOOLEAN : Construct(n, st, ok)
    \/ OnRun
    \/ GetAndSubscribeDevices
    \/ GetEvents

Senders ==
    \/ \E t \in Threads : SendMessage(t)
    \/ \E t \in Threads : SendPartial(t)
    \/ \E t \in Threads : SendRest(t)
    \/ \E t \in Threads : SendFails(t)

Inbound ==
    \/ \E f \in Frames : OnMessage(f)
    \/ \E ok \in BOOLEAN : SinkReturn(ok)
    \/ Return

Closing ==
    \/ TransportError
    \/ Interrupt

Next == Startup \/ Senders \/ Inbound \/ Closing

\* the whole program
Spec == Init /\ [][Next]_vars

\* The program with the sender threads not yet scheduled.  A sender step
\* changes threads and wire only and reads nothing the inbound path writes, so
\* it commutes with every inbound step: a property of the inbound variables,
\* the tokens and the lifecycle that holds here holds under Spec.
NextInbound == Startup \/ Inbound \/ Closing
SpecInbound == Init /\ [][NextInbound]_vars

\* the program with no inbound frame delivered yet
NextStartup == Startup \/ Senders \/ Closing
SpecStartup == Init /\ [][NextStartup]_vars

\* SpecStartup with the scheduling the program relies on: the websocket thread
\* runs the open callback to its end, and every started sender thread is
\* scheduled until its send has returned or raised.
SpecStartupFair ==
    /\ SpecStartup
    /\ WF_vars(OnRun \/ GetAndSubscribeDevices \/ GetEvents)
    /\ \A t \in Threads : WF_vars(SendMessage(t) \/ SendPartial(t))
    /\ \A t \in Threads : WF_vars(SendRest(t))

\* send_message as a function of its arguments: the arguments are drawn from
\* small sets that hold both protocol versions, and the call builds the
\* dictionary.
Commands == {GET, SUBSCRIBE}
Versions == {VERSION_09, VERSION_1, "0.9", "2.0.0"}
ArgValues == {"EosSwitches,count=False", "EosSwitches", "allEvents"}

InitSendMessage ==
    /\ lifecycle = "Disconnected"
    /\ wsPc = "none"
    /\ devices_get_token = NoToken
    /\ devices_sub_token = NoToken
    /\ events_token = NoToken
    /\ devices = EmptyDir
    /\ threads = [t \in Threads |-> Unborn]
    /\ wire = <<>>
    /\ cur = NoFrame
    /\ idx = 0
    /\ mail = NoMail
    /\ sinkCalls = <<>>
    /\ raised = "none"
    /\ before = EmptyDir
    /\ subFold = EmptyDir
    /\ errlog = {}
    /\ call \in [command : Commands, token : TokenSpace, args : ArgValues,
                 version : Versions, data : {NoMsg}]

CallSendMessage ==
    /\ call.data = NoMsg
    /\ call' = [call EXCEPT !.data =
                   send_message(call.command, call.token, call.args,
                                call.version)]
    /\ UNCHANGED <<lifecycle, wsPc, tokenVars, senderVars, inboundVars, errlog>>

SpecSendMessage == InitSendMessage /\ [][CallSendMessage]_vars

\* The sender threads together with the inbound path, for the frames the
\* server sends in answer to a request it has received: an acknowledgement
\* without result, a result with one batch of the directory, a result with
\* one event.
ResponseBodies ==
    {Frame("noresult", NoToken, <<>>),
     Frame("ok", NoToken, <<Batch([k \in {"d1"} |-> "h1"])>>),
     Frame("ok", NoToken, <<Event(TRUE, "d1", "critical", {})>>)}

\* the server answers the request of thread t, which it has received whole
Respond(t) ==
    /\ threads[t].pc = "done"
    /\ \E b \in ResponseBodies :
          OnMessage([b EXCEPT !.tok = threads[t].msg["token"]])

NextResponses ==
    \/ Startup
    \/ Senders
    \/ \E t \in Threads : Respond(t)
    \/ \E ok \in BOOLEAN : SinkReturn(ok)
    \/ Return
    \/ Closing

SpecResponses == Init /\ [][NextResponses]_vars

(***************************************************************************)
(* Vocabulary of the properties.                                           *)
(***************************************************************************)
Registered == {devices_get_token, devices_sub_token, events_token}

\* on_message has returned (or raised) for the frame cur
AtReturn == wsPc = "returned"

LastOf(notifs) == notifs[Len(notifs)]

WellFormedBatch(b) ==
    /\ b.kind = "devices"
    /\ \A k \in DOMAIN b.updates : b.updates[k] \in Hostnames

\* a frame with a result that the router hands to the directory
DeviceFrame(f) ==
    /\ f.shape = "ok"
    /\ f.tok \in {devices_get_token, devices_sub_token}
    /\ f.tok # events_token

\* a frame with a result that the router hands to the event handler, in a run
\* whose three tokens differ
EventFrame(f) ==
    f.shape = "ok" /\ f.tok = events_token /\ Cardinality(Registered) = 3

\* every notification of the sequence is a device batch
BatchesOnly(notifs) == \A i \in 1..Len(notifs) : notifs[i].kind = "devices"

\* the directory d with the entries of u written over it
Override(d, u) ==
    [k \in DOMAIN d \cup DOMAIN u |-> IF k \in DOMAIN u THEN u[k] ELSE d[k]]

\* C1: the directory is empty until the first frame, and a device frame with a
\* result leaves the directory as it was before the frame with every entry of
\* the frame's selected batch written over it: keys of the batch get the
\* batch's hostname, all other keys keep their value.  By induction the
\* directory is the fold of the selected batches in arrival order.
C1_DirectoryIsFoldOfBatches ==
    /\ wsPc \in {"none", "on_run", "get_events"} => devices = EmptyDir
    /\ (AtReturn /\ DeviceFrame(cur) /\ cur.notifs # <<>>
            /\ WellFormedBatch(LastOf(cur.notifs)))
         => /\ raised = "none"
            /\ devices = Override(before, LastOf(cur.notifs).updates)

\* a device frame has overwritten one entry and left another one alone
C1_Witness ==
    /\ AtReturn /\ DeviceFrame(cur) /\ cur.notifs # <<>>
    /\ WellFormedBatch(LastOf(cur.notifs))
    /\ \E k \in DOMAIN before \cap DOMAIN LastOf(cur.notifs).updates :
          /\ before[k] # LastOf(cur.notifs).updates[k]
          /\ devices[k] = LastOf(cur.notifs).updates[k]
    /\ \E k \in DOMAIN before \ DOMAIN LastOf(cur.notifs).updates :
          devices[k] = before[k]

\* a handled frame: this step is the call of on_message for the frame cur'
Handles == wsPc = "idle" /\ wsPc' \in {"returned", "in_sink"}

\* the step left everything but the record of the call as it was
Ignored ==
    /\ wsPc' = "returned"
    /\ raised' = "none"
    /\ devices' = devices
    /\ sinkCalls' = <<>>
    /\ mail' = NoMail
    /\ lifecycle' = lifecycle
    /\ UNCHANGED tokenVars

\* C5: a frame whose token is none of the three registered tokens is ignored,
\* whatever else it contains: on_message returns without an exception, the
\* directory, the registry and the connection state are as before and the
\* sink is not called.
C5_UnknownTokenIgnored ==
    [][(Handles /\ cur'.shape \in {"ok", "noresult", "nonotifs"}
            /\ cur'.tok \notin Registered) => Ignored]_vars

\* a frame with a foreign token, a result and a batch of updates was ignored
\* while the directory held entries
C5_Witness ==
    /\ AtReturn /\ cur.shape = "ok" /\ cur.tok \notin Registered
    /\ Len(cur.notifs) > 0
    /\ LastOf(cur.notifs).kind = "devices"
    /\ DOMAIN LastOf(cur.notifs).updates # {}
    /\ devices # EmptyDir /\ devices = before /\ raised = "none"

\* C6: a frame with a registered token and no result key is ignored by each of
\* the three handlers: no exception, directory unchanged, sink not called,
\* the tokens still registered.
C6_AcknowledgementIgnored ==
    [][(Handles /\ cur'.shape = "noresult" /\ cur'.tok \in Registered)
          => Ignored]_vars

\* an acknowledgement of the subscription was ignored while the three tokens
\* were distinct and the directory held entries
C6_Witness ==
    /\ AtReturn /\ cur.shape = "noresult" /\ cur.tok = devices_sub_token
    /\ Cardinality(Registered) = 3
    /\ devices # EmptyDir /\ devices = before /\ raised = "none"
    /\ sinkCalls = <<>>

\* C7: for a device frame with two or more batches every change of the
\* directory is a write of an entry of the last batch, so a key that only an
\* earlier batch mentions is neither added nor changed; and a well-formed last
\* batch is applied entirely.
C7_OnlyLastBatchApplied ==
    (AtReturn /\ DeviceFrame(cur) /\ Len(cur.notifs) >= 2
        /\ BatchesOnly(cur.notifs))
      => /\ \A k \in DeviceIds \ DOMAIN LastOf(cur.notifs).updates :
               /\ k \in DOMAIN devices <=> k \in DOMAIN before
               /\ k \in DOMAIN before => devices[k] = before[k]
         /\ \A k \in DOMAIN devices \cap DOMAIN LastOf(cur.notifs).updates :
               \/ devices[k] = LastOf(cur.notifs).updates[k]
               \/ k \in DOMAIN before /\ devices[k] = before[k]
         /\ WellFormedBatch(LastOf(cur.notifs))
               => \A k \in DOMAIN LastOf(cur.notifs).updates :
                     k \in DOMAIN devices
                        /\ devices[k] = LastOf(cur.notifs).updates[k]

\* a frame of two batches was handled: the key of the first batch is absent
\* from the directory, the entry of the last batch is in it
C7_Witness ==
    /\ AtReturn /\ DeviceFrame(cur) /\ Len(cur.notifs) = 2 /\ raised = "none"
    /\ BatchesOnly(cur.notifs)
    /\ \E k \in DOMAIN cur.notifs[1].updates :
          /\ k \notin DOMAIN cur.notifs[2].updates
          /\ k \notin DOMAIN devices
    /\ \E k \in DOMAIN cur.notifs[2].updates :
          /\ k \notin DOMAIN before
          /\ devices[k] = cur.notifs[2].updates[k]

\* C2: after a frame of the subscription has been applied, the directory is
\* the snapshot with the subscription's batches over it, whenever the snapshot
\* arrived: every key a subscription batch has written holds the value of the
\* latest subscription batch that wrote it.
C2_SnapshotThenUpdates ==
    (AtReturn /\ DeviceFrame(cur) /\ cur.tok = devices_sub_token
        /\ devices_get_token # devices_sub_token /\ raised = "none")
      => \A k \in DOMAIN subFold : k \in DOMAIN devices /\ devices[k] = subFold[k]

\* every notification of the sequence is an event with all its fields
EventsOnly(notifs) ==
    \A i \in 1..Len(notifs) : notifs[i].kind = "event" /\ notifs[i].missing = {}

\* the calls of the sink made for the notification at index i
CallsFor(i) == {n \in 1..Len(sinkCalls) : sinkCalls[n].at = i}

\* C3: when on_message has returned for an event frame with a result, every
\* notification without data has caused no call of the sink, and every
\* notification with data exactly one, carrying its severity, title,
\* description, resolved host and timestamp.
C3_OneCallPerEventWithData ==
    (AtReturn /\ EventFrame(cur) /\ EventsOnly(cur.notifs))
      => \A i \in 1..Len(cur.notifs) :
            IF cur.notifs[i].hasData
            THEN /\ Cardinality(CallsFor(i)) = 1
                 /\ \A n \in CallsFor(i) :
                       sinkCalls[n].alert = MakeAlert(cur.notifs[i], before)
            ELSE CallsFor(i) = {}

\* the same, for the frames during which no call of the sink failed
C3_OneCallUnlessSinkFailed ==
    (AtReturn /\ EventFrame(cur) /\ EventsOnly(cur.notifs) /\ raised = "none")
      => \A i \in 1..Len(cur.notifs) :
            IF cur.notifs[i].hasData
            THEN /\ Cardinality(CallsFor(i)) = 1
                 /\ \A n \in CallsFor(i) :
                       sinkCalls[n].alert = MakeAlert(cur.notifs[i], before)
            ELSE CallsFor(i) = {}

\* C4: the sink is called at most once for a notification; when a call fails
\* the failure leaves on_message as an exception, the connection stays in
\* Streaming, and the notifications with data that follow the failed one in
\* the frame are handed to the sink all the same.
C4_SinkFailureIsolated ==
    /\ \A i \in 1..Len(cur.notifs) : Cardinality(CallsFor(i)) <= 1
    /\ (AtReturn /\ EventFrame(cur) /\ raised = "SMTPException")
         => /\ lifecycle = "Streaming"
            /\ \A i \in (idx + 1)..Len(cur.notifs) :
                  send_email(cur.notifs[i]) = "sink"
                      => Cardinality(CallsFor(i)) = 1

\* C9: a malformed frame is dropped as a whole: when on_message has raised on
\* a frame that is no JSON or misses a key, the connection is in Streaming,
\* the directory is as it was before the frame, and the read loop goes on.
C9_MalformedFrameDropped ==
    (AtReturn /\ raised \in {"ValueError", "KeyError", "IndexError", "TypeError"})
      => /\ lifecycle = "Streaming"
         /\ devices = before
         /\ ENABLED Return

\* C10: while a call of the sink is in progress the read loop can hand the
\* next frame to on_message.
C10_SinkDoesNotStallInbound ==
    wsPc = "in_sink" => ENABLED (\E f \in Frames : OnMessage(f))

\* the threads that have written a part of their message and not yet the rest
Writing == {t \in Threads : threads[t].pc = "writing"}

\* the write at index i of the wire is a whole message, or the first part of
\* one directly followed by the rest of it, or that rest
CompleteAt(i) ==
    \/ wire[i].part = "whole"
    \/ /\ wire[i].part = "head"
       /\ \/ i = Len(wire) /\ wire[i].thread \in Writing
          \/ /\ i < Len(wire)
             /\ wire[i + 1].part = "tail"
             /\ wire[i + 1].thread = wire[i].thread
    \/ /\ wire[i].part = "tail"
       /\ i > 1
       /\ wire[i - 1].part = "head"
       /\ wire[i - 1].thread = wire[i].thread

\* C8: the sends of the three startup requests are atomic on the transport:
\* no two threads are inside a send at once, and the transport sees each
\* request as one complete message.
C8_SendsAtomic ==
    /\ Cardinality(Writing) <= 1
    /\ SocketOpen => \A i \in 1..Len(wire) : CompleteAt(i)

(***************************************************************************)
(* C11  The open callback issues exactly three requests, each once and     *)
(* each carrying the token registered for it: get and subscribe for the    *)
(* devices dataset, subscribe for all events.  The callback reaches        *)
(* Streaming with no frame received; while the transport stays open every  *)
(* request is eventually written; once Streaming no request is issued or   *)
(* changed any more.                                                       *)
(***************************************************************************)
Closed == lifecycle \in {"ClosedError", "ClosedNormal"}

\* the position of the writes that begin the message of thread t
Begun(t) == {i \in 1..Len(wire) :
                wire[i].thread = t /\ wire[i].part \in {"whole", "head"}}

ThreeRequests ==
    /\ threads["get_devices"].msg =
           [token |-> devices_get_token, command |-> "get",
            version |-> "1.0.0", params |-> "EosSwitches,count=False"]
    /\ threads["sub_devices"].msg =
           [token |-> devices_sub_token, command |-> "subscribe",
            version |-> "1.0.0", params |-> "EosSwitches"]
    /\ threads["sub_events"].msg =
           [token |-> events_token, command |-> "subscribe",
            version |-> "1.0.0", params |-> "allEvents"]
    /\ \A t \in Threads : threads[t].pc # "unborn"

C11_IssuedOnce ==
    /\ lifecycle = "Streaming" => ThreeRequests /\ NoToken \notin Registered
    /\ \A t \in Threads :
         /\ Cardinality(Begun(t)) <= 1
         /\ threads[t].pc = "done" => Cardinality(Begun(t)) = 1
         /\ threads[t].pc \in {"unborn", "ready"} => Begun(t) = {}
    /\ \A i \in 1..Len(wire) : wire[i].msg = threads[wire[i].thread].msg

C11_NothingIssuedLater ==
    (lifecycle = "Streaming" \/ Closed) =>
        /\ \A t \in Threads : threads'[t].msg = threads[t].msg
        /\ \A t \in Threads : threads[t].pc = "unborn" => threads'[t] = threads[t]
        /\ <<devices_get_token, devices_sub_token, events_token>>' =
               <<devices_get_token, devices_sub_token, events_token>>

C11_StartupRequests ==
    /\ []C11_IssuedOnce
    /\ [][C11_NothingIssuedLater]_vars
    /\ (lifecycle = "SubscribingInitial") ~> (lifecycle = "Streaming")
    /\ \A t \in Threads :
         (lifecycle = "SubscribingInitial") ~> (threads[t].pc = "done" \/ Closed)

C11_Witness ==
    /\ lifecycle = "Streaming"
    /\ cur = NoFrame
    /\ \A t \in Threads : threads[t].pc = "done"
    /\ Cardinality(Registered) = 3

(***************************************************************************)
(* C12  The dictionary send_message builds holds exactly one of the keys   *)
(* args and params: args when the version is "0.9.0", params for every     *)
(* other version.  It holds the token, the command and the version of the  *)
(* call, the argument under that one key, and nothing else.                *)
(***************************************************************************)
C12_ArgsOrParams ==
    call.data # NoMsg =>
        LET data == call.data
            hasArgs == "args" \in DOMAIN data
            hasParams == "params" \in DOMAIN data
        IN  /\ hasArgs # hasParams
            /\ hasArgs <=> (call.version = "0.9.0")
            /\ DOMAIN data \subseteq
                   {"token", "command", "version", "args", "params"}
            /\ data["token"] = call.token
            /\ data["command"] = call.command
            /\ data["version"] = call.version
            /\ hasArgs => data["args"] = call.args
            /\ hasParams => data["params"] = call.args

C12_Witness ==
    /\ call.data # NoMsg
    /\ call.version = "0.9.0"
    /\ "args" \in DOMAIN call.data
    /\ call.data["args"] = "allEvents"

(***************************************************************************)
(* C13  The host of every alert handed to the sink is the hostname the     *)
(* directory held for the event's deviceId when the frame was processed,   *)
(* and the deviceId itself when the directory held none (the empty         *)
(* directory included).  The lookup raises nothing and leaves the          *)
(* directory as it was.                                                    *)
(***************************************************************************)
HostOf(dir, d) ==
    IF \E k \in DOMAIN dir : k = d THEN dir[d] ELSE d

C13_HostResolved ==
    /\ \A n \in 1..Len(sinkCalls) :
         /\ sinkCalls[n].alert.host =
                HostOf(before, cur.notifs[sinkCalls[n].at].deviceId)
         /\ devices = before
    /\ wsPc = "in_sink" =>
         /\ mail.host = HostOf(devices, cur.notifs[idx].deviceId)
         /\ raised = "none"

C13_Witness ==
    /\ Len(sinkCalls) = 2
    /\ before # EmptyDir
    /\ sinkCalls[1].alert.host \in Hostnames
    /\ sinkCalls[2].alert.host \in DeviceIds
    /\ cur.notifs[sinkCalls[1].at].deviceId # sinkCalls[1].alert.host
    /\ cur.notifs[sinkCalls[2].at].deviceId = sinkCalls[2].alert.host

(***************************************************************************)
(* C14  A send on a transport that is not open fails: the step writes      *)
(* nothing, the failed request is never written or tried again, nothing    *)
(* is written while the transport is not open, and the failure leaves the  *)
(* other threads, the directory and the three tokens as they were.         *)
(***************************************************************************)
NotOpen == lifecycle \notin {"SubscribingInitial", "Streaming"}

Fails(t) == threads[t].pc # "failed" /\ threads'[t].pc = "failed"

C14_StepProperty ==
    /\ NotOpen => wire' = wire
    /\ \A t \in Threads :
         /\ (threads[t].pc = "ready" /\ NotOpen /\ threads'[t] # threads[t])
                => Fails(t)
         /\ Fails(t) =>
              /\ NotOpen
              /\ wire' = wire
              /\ \A u \in Threads \ {t} : threads'[u] = threads[u]
              /\ devices' = devices
              /\ <<devices_get_token, devices_sub_token, events_token>>' =
                     <<devices_get_token, devices_sub_token, events_token>>
         /\ threads[t].pc = "failed" => threads'[t] = threads[t]

C14_SendOnClosedFails == [][C14_StepProperty]_vars

\* one request failed on the closed transport without a write; another had
\* been sent before the close, and the third then fails on its own
C14_Witness ==
    /\ threads["get_devices"].pc = "failed"
    /\ Begun("get_devices") = {}
    /\ threads["sub_devices"].pc = "done"
    /\ threads["sub_events"].pc = "failed"
    /\ NotOpen

(***************************************************************************)
(* C15  A login rejected at construction, by the feed or by the mail       *)
(* server, ends the program in Closed(error): it is never Connected, the   *)
(* transport is never run, no request is issued or written, no frame is    *)
(* processed, nothing is handed to the sink, and no step of the program    *)
(* is possible any more, a second login included.                          *)
(***************************************************************************)
LoginRejected ==
    \/ "Telemetry credentials invalid" \in errlog
    \/ "mail login failed" \in errlog

C15_LoginRejectionFatal ==
    LoginRejected =>
        /\ lifecycle = "ClosedError"
        /\ wsPc = "none"
        /\ Registered = {NoToken}
        /\ \A t \in Threads : threads[t] = Unborn
        /\ wire = <<>>
        /\ cur = NoFrame
        /\ sinkCalls = <<>>
        /\ mail = NoMail
        /\ devices = EmptyDir
        /\ ~ENABLED Next

C15_Witness ==
    /\ "mail login failed" \in errlog
    /\ lifecycle = "ClosedError"

(***************************************************************************)
(* C16  Once a transport error has ended the read loop the error is in the *)
(* log, the connection is in Closed(error) and stays there: the open       *)
(* callback does not run again, no token is made, no request is written,   *)
(* no frame is handed to on_message and no alert reaches the sink.  The    *)
(* only steps left are those of sender threads whose send now fails.       *)
(***************************************************************************)
TransportErrorSeen == "Websocket connection error" \in errlog

SendStep ==
    \E t \in Threads : SendMessage(t) \/ SendPartial(t) \/ SendRest(t)

C16_ClosedAfterError ==
    TransportErrorSeen =>
        /\ lifecycle = "ClosedError"
        /\ wsPc = "exited"
        /\ mail = NoMail
        /\ ~ENABLED (Startup \/ Inbound \/ Closing \/ SendStep)

C16_Witness ==
    /\ TransportErrorSeen
    /\ lifecycle = "ClosedError"
    /\ NoToken \notin Registered
    /\ devices # EmptyDir

(***************************************************************************)
(* C17  A registered token stays registered for the life of the            *)
(* connection, the token of the one-shot get included: each of the three   *)
(* fields holds the token its request was issued with, in every state      *)
(* after the request was issued.  So every frame with the get token and a  *)
(* result is applied to the directory, a second one like the first.        *)
(***************************************************************************)
IssuedToken(t) == threads[t].msg["token"]

C17_TokensStayRegistered ==
    /\ threads["get_devices"].pc # "unborn" =>
           devices_get_token = IssuedToken("get_devices")
               /\ devices_get_token # NoToken
    /\ threads["sub_devices"].pc # "unborn" =>
           devices_sub_token = IssuedToken("sub_devices")
               /\ devices_sub_token # NoToken
    /\ threads["sub_events"].pc # "unborn" =>
           events_token = IssuedToken("sub_events") /\ events_token # NoToken
    /\ (AtReturn /\ cur.shape = "ok" /\ cur.tok = devices_get_token
            /\ cur.tok # events_token /\ cur.notifs # <<>>
            /\ WellFormedBatch(LastOf(cur.notifs)))
         => /\ raised = "none"
            /\ \A k \in DOMAIN LastOf(cur.notifs).updates :
                  k \in DOMAIN devices
                      /\ devices[k] = LastOf(cur.notifs).updates[k]

\* a frame with the get token is applied to a directory holding an entry that
\* no frame of the subscription wrote, that is, an entry of an earlier frame
\* with the get token
C17_Witness ==
    /\ AtReturn /\ cur.shape = "ok" /\ cur.tok = devices_get_token
    /\ Cardinality(Registered) = 3
    /\ \E k \in DOMAIN before : k \notin DOMAIN subFold
    /\ cur.notifs # <<>> /\ WellFormedBatch(LastOf(cur.notifs))
    /\ \E k \in DOMAIN LastOf(cur.notifs).updates :
          /\ k \in DOMAIN before
          /\ before[k] # LastOf(cur.notifs).updates[k]
          /\ devices[k] = LastOf(cur.notifs).updates[k]

(***************************************************************************)
(* C18  A token is never reused while registered: in every reachable state *)
(* the registered tokens are pairwise distinct.  make_token compares its   *)
(* draw with nothing, so the formula fails where two draws coincide.       *)
(***************************************************************************)
C18_TokensDistinct ==
    /\ devices_get_token # NoToken => devices_get_token # devices_sub_token
    /\ events_token # NoToken =>
          events_token \notin {devices_get_token, devices_sub_token}

(***************************************************************************)
(* What holds of the router when two registered tokens are equal: a frame  *)
(* is handled by one handler only.  A frame whose token equals the events  *)
(* token goes to the event handler and leaves the directory alone, every   *)
(* other frame leaves the sink alone.                                      *)
(***************************************************************************)
TokensCollide == NoToken \notin Registered /\ Cardinality(Registered) < 3

Handled == wsPc \in {"returned", "in_sink"}

OneHandlerWhenTokensCollide ==
    /\ Registered \subseteq TokenSpace \cup {NoToken}
    /\ (TokensCollide /\ Handled) =>
         /\ cur.tok = events_token => devices = before
         /\ cur.tok # events_token => sinkCalls = <<>> /\ mail = NoMail
         /\ ~(devices # before /\ sinkCalls # <<>>)

\* the events token equals the get token, and a frame with that token and a
\* batch for the directory was handled by the event handler: the directory
\* lacks the batch's entry
SnapshotHandledAsEvents ==
    /\ TokensCollide /\ AtReturn
    /\ events_token = devices_get_token
    /\ cur.shape = "ok" /\ cur.tok = devices_get_token
    /\ cur.notifs # <<>> /\ WellFormedBatch(LastOf(cur.notifs))
    /\ \E k \in DOMAIN LastOf(cur.notifs).updates : k \notin DOMAIN devices
    /\ raised = "none"

(***************************************************************************)
(* C19  A token is registered before its request can reach the transport   *)
(* and before a frame is handled: every write on the wire carries the      *)
(* token stored in the field of its request, all three tokens are stored   *)
(* whenever on_message runs, and the server's response to a request it     *)
(* has received reaches a handler: it is never dropped as unknown.         *)
(***************************************************************************)
TokenField(t) ==
    CASE t = "get_devices" -> devices_get_token
      [] t = "sub_devices" -> devices_sub_token
      [] t = "sub_events" -> events_token

IsBatchResponse ==
    cur.shape = "ok" /\ cur.notifs # <<>> /\ cur.notifs[1].kind = "devices"

IsEventResponse ==
    cur.shape = "ok" /\ cur.notifs # <<>> /\ cur.notifs[1].kind = "event"

C19_RegisteredBeforeUse ==
    /\ \A i \in 1..Len(wire) :
          /\ wire[i].msg["token"] # NoToken
          /\ wire[i].msg["token"] = TokenField(wire[i].thread)
    /\ cur # NoFrame =>
          /\ NoToken \notin Registered
          /\ cur.tok \in Registered
    /\ (AtReturn /\ IsBatchResponse /\ cur.tok # events_token) =>
          /\ raised = "none"
          /\ \A k \in DOMAIN cur.notifs[1].updates :
                k \in DOMAIN devices /\ devices[k] = cur.notifs[1].updates[k]
    /\ (Handled /\ IsEventResponse /\ cur.tok = events_token) =>
          sinkCalls # <<>>

\* the response to the get request is applied while the subscribe requests
\* are still on their way to the transport
C19_Witness ==
    /\ AtReturn /\ IsBatchResponse
    /\ cur.tok = devices_get_token
    /\ Cardinality(Registered) = 3
    /\ devices # EmptyDir
    /\ threads["get_devices"].pc = "done"
    /\ threads["sub_devices"].pc = "writing"
    /\ threads["sub_events"].pc = "ready"

(***************************************************************************)
(* C20  Each frame reaches one handler at most and the handlers keep to    *)
(* their own state; in particular a frame with the get-devices or the      *)
(* subscribe-devices token never calls the sink.  That part fails where    *)
(* the events token equals a device token (C18).                           *)
(***************************************************************************)
C20_DeviceTokenNeverCallsSink ==
    (Handled /\ cur.tok \in {devices_get_token, devices_sub_token})
        => sinkCalls = <<>> /\ mail = NoMail

(***************************************************************************)
(* The other parts of C20 hold in every reachable state: a frame reaches   *)
(* one handler at most; a frame with the events token never changes the    *)
(* directory; a frame whose token is not the events token never calls the  *)
(* sink; no frame changes a token field.                                   *)
(***************************************************************************)
HandlersKeepApart ==
    Handled =>
        /\ ~(devices # before /\ sinkCalls # <<>>)
        /\ cur.tok = events_token => devices = before
        /\ cur.tok # events_token => sinkCalls = <<>> /\ mail = NoMail
        /\ cur.tok \notin Registered => devices = before
        /\ \A t \in Threads : TokenField(t) = IssuedToken(t)

\* with three distinct tokens: an event frame is in the sink and the
\* directory, filled by earlier device frames, is as it was
EventFrameLeavesDirectory ==
    /\ wsPc = "in_sink" /\ cur.tok = events_token
    /\ Cardinality(Registered) = 3
    /\ sinkCalls # <<>>
    /\ devices = before /\ devices # EmptyDir

====
